---- MODULE Spec2Model ----
(***************************************************************************)
(* The "2048" game engine of two048.py: the class Game with its n x n      *)
(* table, the four shifts, update_status and insert_random_2.              *)
(*                                                                         *)
(* The table is a function from row index to a function from column index  *)
(* to an integer, both indices 0-based as in the source, so that the loop  *)
(* guards of the source can be read off literally.                         *)
(***************************************************************************)
EXTENDS Integers, Sequences, FiniteSets, TLC

VARIABLES n, winning_number, table, status, op, merges, draws, streak, pc

vars == <<n, winning_number, table, status, op, merges, draws, streak, pc>>

\* ---------------------------------------------------------------- bounds
\* Largest table size explored.
MaxN == 3
\* A game of size n is explored while 2 * n + (sum of the tiles) / 2 stays
\* within MaxGame: larger tables get fewer tiles.
MaxGame == 10
\* Largest number of coordinate draws of one insert_random_2 call explored.
MaxDraws == 2

\* The winning numbers explored (the driver uses 2048).
WinningNumbers == {2, 4, 8}
\* The tile values a directly assigned table may hold.
TileValues == {0, 2, 4, 8}

\* ---------------------------------------------------------------- state
Statuses == {"WON", "LOST", "IN_PROGRESS"}

Idx == 0 .. n - 1
Cells == Idx \X Idx

\* The position of the method call in progress: the statement it is at and
\* its local variables i, j and num_eliminated_elements (e). Between calls,
\* and wherever a call is taken as one step, it is Idle.
Idle == [at |-> "idle", i |-> 0, j |-> 0, e |-> 0]

ZeroTable(nn) == [i \in 0 .. nn - 1 |-> [j \in 0 .. nn - 1 |-> 0]]

RECURSIVE SumFrom(_, _)
SumFrom(t, k) ==
    IF k >= n * n THEN 0 ELSE t[k \div n][k % n] + SumFrom(t, k + 1)

Sum(t) == SumFrom(t, 0)

NonZero(t) == Cardinality({c \in Cells : t[c[1]][c[2]] # 0})

\* ---------------------------------------------------------------- shifts
\* self.table[i, j:] = np.concatenate((self.table[i, j + 1:], np.zeros(1)))
EliminateLeft(t, i, j) ==
    [t EXCEPT ![i] = [k \in Idx |->
        IF k < j THEN t[i][k] ELSE IF k < n - 1 THEN t[i][k + 1] ELSE 0]]

\* self.table[i, :j + 1] = np.concatenate((np.zeros(1), self.table[i, :j]))
EliminateRight(t, i, j) ==
    [t EXCEPT ![i] = [k \in Idx |->
        IF k > j THEN t[i][k] ELSE IF k > 0 THEN t[i][k - 1] ELSE 0]]

\* self.table[j:, i] = np.concatenate((self.table[j + 1:, i], np.zeros(1)))
EliminateUp(t, i, j) ==
    [r \in Idx |-> [c \in Idx |->
        IF c # i \/ r < j THEN t[r][c]
        ELSE IF r < n - 1 THEN t[r + 1][c] ELSE 0]]

\* self.table[:j + 1, i] = np.concatenate((np.zeros(1), self.table[:j, i]))
EliminateDown(t, i, j) ==
    [r \in Idx |-> [c \in Idx |->
        IF c # i \/ r > j THEN t[r][c]
        ELSE IF r > 0 THEN t[r - 1][c] ELSE 0]]

\* CompactLeft with j advanced after an elimination too, so that the entry
\* moved into position j is skipped.
RECURSIVE CompactLeftSkip(_, _, _, _)
CompactLeftSkip(t, i, j, e) ==
    IF j < n - e - 1
    THEN IF t[i][j] = 0
         THEN CompactLeftSkip(EliminateLeft(t, i, j), i, j + 1, e + 1)
         ELSE CompactLeftSkip(t, i, j + 1, e)
    ELSE [table |-> t, elim |-> e]

\* The compaction loop of shift_left on row i, from position j with e
\* eliminated elements.
RECURSIVE CompactLeft(_, _, _, _)
CompactLeft(t, i, j, e) ==
    IF j < n - e - 1
    THEN IF t[i][j] = 0
         THEN CompactLeft(EliminateLeft(t, i, j), i, j, e + 1)
         ELSE CompactLeft(t, i, j + 1, e)
    ELSE [table |-> t, elim |-> e]

\* The merge loop of shift_left on row i.
RECURSIVE MergeLeft(_, _, _, _)
MergeLeft(t, i, j, e) ==
    IF j < n - e - 1
    THEN IF t[i][j] = t[i][j + 1]
         THEN MergeLeft(
                EliminateLeft([t EXCEPT ![i][j + 1] = 2 * t[i][j + 1]], i, j),
                i, j, e + 1)
         ELSE MergeLeft(t, i, j + 1, e)
    ELSE [table |-> t, elim |-> e]

\* CompactRight with the loop stopping one position early.
RECURSIVE CompactRightStopEarly(_, _, _, _)
CompactRightStopEarly(t, i, j, e) ==
    IF j > e + 1
    THEN IF t[i][j] = 0
         THEN CompactRightStopEarly(EliminateRight(t, i, j), i, j, e + 1)
         ELSE CompactRightStopEarly(t, i, j - 1, e)
    ELSE [table |-> t, elim |-> e]

RECURSIVE CompactRight(_, _, _, _)
CompactRight(t, i, j, e) ==
    IF j > e
    THEN IF t[i][j] = 0
         THEN CompactRight(EliminateRight(t, i, j), i, j, e + 1)
         ELSE CompactRight(t, i, j - 1, e)
    ELSE [table |-> t, elim |-> e]

\* MergeRight without the doubling of the kept entry.
RECURSIVE MergeRightNoDouble(_, _, _, _)
MergeRightNoDouble(t, i, j, e) ==
    IF j > e
    THEN IF t[i][j] = t[i][j - 1]
         THEN MergeRightNoDouble(EliminateRight(t, i, j), i, j, e + 1)
         ELSE MergeRightNoDouble(t, i, j - 1, e)
    ELSE [table |-> t, elim |-> e]

RECURSIVE MergeRight(_, _, _, _)
MergeRight(t, i, j, e) ==
    IF j > e
    THEN IF t[i][j] = t[i][j - 1]
         THEN MergeRight(
                EliminateRight([t EXCEPT ![i][j - 1] = 2 * t[i][j - 1]], i, j),
                i, j, e + 1)
         ELSE MergeRight(t, i, j - 1, e)
    ELSE [table |-> t, elim |-> e]

\* CompactUp with j advanced after an elimination too.
RECURSIVE CompactUpSkip(_, _, _, _)
CompactUpSkip(t, i, j, e) ==
    IF j < n - e - 1
    THEN IF t[j][i] = 0
         THEN CompactUpSkip(EliminateUp(t, i, j), i, j + 1, e + 1)
         ELSE CompactUpSkip(t, i, j + 1, e)
    ELSE [table |-> t, elim |-> e]

\* In shift_up and shift_down i is the column index and j the row index.
RECURSIVE CompactUp(_, _, _, _)
CompactUp(t, i, j, e) ==
    IF j < n - e - 1
    THEN IF t[j][i] = 0
         THEN CompactUp(EliminateUp(t, i, j), i, j, e + 1)
         ELSE CompactUp(t, i, j + 1, e)
    ELSE [table |-> t, elim |-> e]

\* MergeUp without the elimination of the merged entry.
RECURSIVE MergeUpNoEliminate(_, _, _, _)
MergeUpNoEliminate(t, i, j, e) ==
    IF j < n - e - 1
    THEN IF t[j][i] = t[j + 1][i]
         THEN MergeUpNoEliminate(
                [t EXCEPT ![j + 1][i] = 2 * t[j + 1][i]], i, j, e + 1)
         ELSE MergeUpNoEliminate(t, i, j + 1, e)
    ELSE [table |-> t, elim |-> e]

RECURSIVE MergeUp(_, _, _, _)
MergeUp(t, i, j, e) ==
    IF j < n - e - 1
    THEN IF t[j][i] = t[j + 1][i]
         THEN MergeUp(
                EliminateUp([t EXCEPT ![j + 1][i] = 2 * t[j + 1][i]], i, j),
                i, j, e + 1)
         ELSE MergeUp(t, i, j + 1, e)
    ELSE [table |-> t, elim |-> e]

RECURSIVE CompactDown(_, _, _, _)
CompactDown(t, i, j, e) ==
    IF j > e
    THEN IF t[j][i] = 0
         THEN CompactDown(EliminateDown(t, i, j), i, j, e + 1)
         ELSE CompactDown(t, i, j - 1, e)
    ELSE [table |-> t, elim |-> e]

\* MergeDown with 2 added to the kept entry instead of its doubling.
RECURSIVE MergeDownPlusTwo(_, _, _, _)
MergeDownPlusTwo(t, i, j, e) ==
    IF j > e
    THEN IF t[j][i] = t[j - 1][i]
         THEN MergeDownPlusTwo(
                EliminateDown([t EXCEPT ![j - 1][i] = t[j - 1][i] + 2], i, j),
                i, j, e + 1)
         ELSE MergeDownPlusTwo(t, i, j - 1, e)
    ELSE [table |-> t, elim |-> e]

RECURSIVE MergeDown(_, _, _, _)
MergeDown(t, i, j, e) ==
    IF j > e
    THEN IF t[j][i] = t[j - 1][i]
         THEN MergeDown(
                EliminateDown([t EXCEPT ![j - 1][i] = 2 * t[j - 1][i]], i, j),
                i, j, e + 1)
         ELSE MergeDown(t, i, j - 1, e)
    ELSE [table |-> t, elim |-> e]

\* for i in range(self.n): compaction loop, then merge loop. m counts the
\* merges performed: the increments of num_eliminated_elements in the merge
\* loops.
RECURSIVE ShiftLeftFrom(_, _, _)
ShiftLeftFrom(t, i, m) ==
    IF i < n
    THEN LET c == CompactLeft(t, i, 0, 0)
             g == MergeLeft(c.table, i, 0, c.elim)
         IN  ShiftLeftFrom(g.table, i + 1, m + (g.elim - c.elim))
    ELSE [table |-> t, merges |-> m]

RECURSIVE ShiftRightFrom(_, _, _)
ShiftRightFrom(t, i, m) ==
    IF i < n
    THEN LET c == CompactRight(t, i, n - 1, 0)
             g == MergeRight(c.table, i, n - 1, c.elim)
         IN  ShiftRightFrom(g.table, i + 1, m + (g.elim - c.elim))
    ELSE [table |-> t, merges |-> m]

RECURSIVE ShiftUpFrom(_, _, _)
ShiftUpFrom(t, i, m) ==
    IF i < n
    THEN LET c == CompactUp(t, i, 0, 0)
             g == MergeUp(c.table, i, 0, c.elim)
         IN  ShiftUpFrom(g.table, i + 1, m + (g.elim - c.elim))
    ELSE [table |-> t, merges |-> m]

RECURSIVE ShiftDownFrom(_, _, _)
ShiftDownFrom(t, i, m) ==
    IF i < n
    THEN LET c == CompactDown(t, i, n - 1, 0)
             g == MergeDown(c.table, i, n - 1, c.elim)
         IN  ShiftDownFrom(g.table, i + 1, m + (g.elim - c.elim))
    ELSE [table |-> t, merges |-> m]

Shifts == {"shift_left", "shift_right", "shift_up", "shift_down"}

\* shift_left with the status evaluated at its end.
shift_left_evaluating_status ==
    LET r == ShiftLeftFrom(table, 0, 0)
    IN  /\ table' = r.table
        /\ merges' = r.merges
        /\ streak' = IF op = "shift_left" THEN 2 ELSE 1
        /\ op' = "shift_left"
        /\ draws' = 0
        /\ status' = IF \E c \in Cells : r.table[c[1]][c[2]] >= winning_number
                      THEN "WON" ELSE status
        /\ UNCHANGED <<pc, n, winning_number>>

\* One call of each shift method. streak counts the calls of the same shift
\* made in a row (1, then 2 from the second on).
shift_left ==
    LET r == ShiftLeftFrom(table, 0, 0)
    IN  /\ table' = r.table
        /\ merges' = r.merges
        /\ streak' = IF op = "shift_left" THEN 2 ELSE 1
        /\ op' = "shift_left"
        /\ draws' = 0
        /\ UNCHANGED <<pc, n, winning_number, status>>

shift_right ==
    LET r == ShiftRightFrom(table, 0, 0)
    IN  /\ table' = r.table
        /\ merges' = r.merges
        /\ streak' = IF op = "shift_right" THEN 2 ELSE 1
        /\ op' = "shift_right"
        /\ draws' = 0
        /\ UNCHANGED <<pc, n, winning_number, status>>

shift_up ==
    LET r == ShiftUpFrom(table, 0, 0)
    IN  /\ table' = r.table
        /\ merges' = r.merges
        /\ streak' = IF op = "shift_up" THEN 2 ELSE 1
        /\ op' = "shift_up"
        /\ draws' = 0
        /\ UNCHANGED <<pc, n, winning_number, status>>

shift_down ==
    LET r == ShiftDownFrom(table, 0, 0)
    IN  /\ table' = r.table
        /\ merges' = r.merges
        /\ streak' = IF op = "shift_down" THEN 2 ELSE 1
        /\ op' = "shift_down"
        /\ draws' = 0
        /\ UNCHANGED <<pc, n, winning_number, status>>

\* --------------------------------------------------------- update_status
\* np.any(self.table >= self.winning_number)
AnyWon(t) == \E c \in Cells : t[c[1]][c[2]] >= winning_number

\* np.any(self.table == 0)
AnyZero(t) == \E c \in Cells : t[c[1]][c[2]] = 0

\* Probe with the last row and the last column taken for out of range.
ProbeLastOutOfRange(t, i, j, a, b) ==
    IF a >= n - 1 \/ b >= n - 1 THEN FALSE ELSE t[i][j] = t[a][b]

\* try: if self.table[i,j] == self.table[a,b]: return / except: pass.
\* Indexing at a = n or b = n raises IndexError, which the except swallows.
Probe(t, i, j, a, b) ==
    IF a > n - 1 \/ b > n - 1 THEN FALSE ELSE t[i][j] = t[a][b]

\* ScanPairs with the probe of the entry below only: the probe of the entry
\* to the right is left out.
RECURSIVE ScanPairsBelowOnly(_, _)
ScanPairsBelowOnly(t, k) ==
    IF k >= n * n
    THEN FALSE
    ELSE IF Probe(t, k \div n, k % n, k \div n + 1, k % n) THEN TRUE
         ELSE ScanPairsBelowOnly(t, k + 1)

\* The double loop over i and j, k = i * n + j: TRUE when it returns early
\* on two equal consecutive entries, FALSE when it runs to its end.
RECURSIVE ScanPairs(_, _)
ScanPairs(t, k) ==
    IF k >= n * n
    THEN FALSE
    ELSE LET i == k \div n
             j == k % n
         IN  IF Probe(t, i, j, i + 1, j) THEN TRUE
             ELSE IF Probe(t, i, j, i, j + 1) THEN TRUE
             ELSE ScanPairs(t, k + 1)

\* UpdateStatus with the loss decided before the win.
UpdateStatusLossFirst(t, s) ==
    IF ~AnyZero(t) /\ ~ScanPairs(t, 0) THEN "LOST"
    ELSE IF AnyWon(t) THEN "WON"
    ELSE s

\* UpdateStatus without the scan for equal consecutive entries: a table
\* with no null entry is lost.
UpdateStatusFullIsLost(t, s) ==
    IF AnyWon(t) THEN "WON"
    ELSE IF AnyZero(t) THEN s
    ELSE "LOST"

\* The status that update_status leaves, from the table and the status
\* before the call.
UpdateStatus(t, s) ==
    IF AnyWon(t) THEN "WON"
    ELSE IF AnyZero(t) THEN s
    ELSE IF ScanPairs(t, 0) THEN s
    ELSE "LOST"

update_status ==
    /\ status' = UpdateStatus(table, status)
    /\ op' = "update_status"
    /\ merges' = 0
    /\ draws' = 0
    /\ streak' = 0
    /\ UNCHANGED <<pc, n, winning_number, table>>

\* ------------------------------------------------------- insert_random_2
\* The model explores a table only while it is within the bounds.
WithinBounds(t) == 2 * n + Sum(t) \div 2 <= MaxGame

\* while self.table[i, j] != 0: the drawn coordinate is rejected.
Rejected(t, c) == t[c[1]][c[2]] # 0

\* InsertRandom2 without the loop: the first drawn coordinate is written,
\* null or not.
InsertRandom2NoLoop(t) ==
    IF ~AnyZero(t)
    THEN {[table |-> t, draws |-> 0]}
    ELSE {[table |-> [t EXCEPT ![c[1]][c[2]] = 2], draws |-> 1] : c \in Cells}

\* InsertRandom2 with one draw among the null entries instead of the loop.
InsertRandom2Direct(t) ==
    IF ~AnyZero(t)
    THEN {[table |-> t, draws |-> 0]}
    ELSE {[table |-> [t EXCEPT ![c[1]][c[2]] = 2], draws |-> 1] :
            c \in {d \in Cells : ~Rejected(t, d)}}

\* The outcomes of one call: the table after it and the number of
\* coordinate draws (i, j) it made. On a table with no null entry nothing is
\* drawn. Otherwise the k-th draw c is the first one that is not rejected,
\* the k - 1 draws before it hit rejected coordinates (so there is one), and
\* table[c] is set to 2.
InsertRandom2(t) ==
    IF ~AnyZero(t)
    THEN {[table |-> t, draws |-> 0]}
    ELSE {[table |-> [t EXCEPT ![c[1]][c[2]] = 2], draws |-> k] :
            c \in {d \in Cells : ~Rejected(t, d)},
            k \in {m \in 1 .. MaxDraws :
                     m > 1 => \E o \in Cells : Rejected(t, o)}}

insert_random_2 ==
    /\ \E r \in InsertRandom2(table) :
          /\ WithinBounds(r.table)
          /\ table' = r.table
          /\ draws' = r.draws
    /\ op' = "insert_random_2"
    /\ merges' = 0
    /\ streak' = 0
    /\ UNCHANGED <<pc, n, winning_number, status>>

\* ----------------------------------------------------------- construction
\* Game with the status evaluated at the end of __init__.
GameStatusEvaluated(nn, wn) ==
    {[n |-> nn, winning_number |-> wn, table |-> r.table,
      status |-> UpdateStatus(r.table, "IN_PROGRESS"), draws |-> r.draws] :
        r \in InsertRandom2(ZeroTable(nn))}

\* Game(nn, wn): the games __init__ can construct. It is evaluated where
\* n = nn.
Game(nn, wn) ==
    {[n |-> nn, winning_number |-> wn, table |-> r.table,
      status |-> "IN_PROGRESS", draws |-> r.draws] :
        r \in InsertRandom2(ZeroTable(nn))}

Init ==
    /\ n \in 1 .. MaxN
    /\ winning_number \in WinningNumbers
    /\ \E g \in Game(n, winning_number) :
          /\ table = g.table
          /\ status = g.status
          /\ draws = g.draws
    /\ op = "init"
    /\ merges = 0
    /\ streak = 0
    /\ pc = Idle

Next ==
    \/ shift_left
    \/ shift_right
    \/ shift_up
    \/ shift_down
    \/ insert_random_2
    \/ update_status

Spec == Init /\ [][Next]_vars

\* ------------------------------------------------------------ the driver
\* main() of main.py plays one game. The driver constructs Game(4, 2048);
\* the model plays the sizes and winning numbers within its bounds for
\* which, as for 4 and 2048, the first tile neither fills the table nor wins.
InitMain ==
    /\ Init
    /\ n >= 2
    /\ winning_number > 2

\* The commands: the four keys, and "other" for every other input string.
Commands == {"w", "d", "s", "a", "other"}

\* The if / elif chain on the command c: the shift it calls on table t, or
\* none (display_controls).
CommandShift(c, t) ==
    CASE c = "w" -> ShiftUpFrom(t, 0, 0)
      [] c = "d" -> ShiftRightFrom(t, 0, 0)
      [] c = "s" -> ShiftDownFrom(t, 0, 0)
      [] c = "a" -> ShiftLeftFrom(t, 0, 0)
      [] OTHER -> [table |-> t, merges |-> 0]

\* MainIteration with update_status called before insert_random_2.
MainIterationStatusFirst(c, t, s) ==
    LET sh == CommandShift(c, t)
    IN  {[table |-> r.table, merges |-> sh.merges, draws |-> r.draws,
          status |-> UpdateStatus(sh.table, s)] :
            r \in InsertRandom2(sh.table)}

\* One iteration of the while loop on command c, from table t and status s:
\* the shift of the command if it names one, then insert_random_2, then
\* update_status.
MainIteration(c, t, s) ==
    LET sh == CommandShift(c, t)
    IN  {[table |-> r.table, merges |-> sh.merges, draws |-> r.draws,
          status |-> UpdateStatus(r.table, s)] :
            r \in InsertRandom2(sh.table)}

\* while game.status == Status.IN_PROGRESS: c = input() ...
main_loop ==
    /\ op \notin {"You lost!", "You won!"}
    /\ status = "IN_PROGRESS"
    /\ \E c \in Commands :
          /\ op' = c
          /\ \E r \in MainIteration(c, table, status) :
                /\ WithinBounds(r.table)
                /\ table' = r.table
                /\ merges' = r.merges
                /\ draws' = r.draws
                /\ status' = r.status
    /\ streak' = 0
    /\ UNCHANGED <<pc, n, winning_number>>

\* The loop has ended: print("You lost!") or print("You won!").
main_end ==
    /\ op \notin {"You lost!", "You won!"}
    /\ status # "IN_PROGRESS"
    /\ op' = IF status = "LOST" THEN "You lost!" ELSE "You won!"
    /\ UNCHANGED <<pc, n, winning_number, table, status, merges, draws, streak>>

NextMain ==
    \/ main_loop
    \/ main_end

SpecMain == InitMain /\ [][NextMain]_vars

\* ------------------------------------------------- direct table assignment
\* game.table = np.array(...): a client replaces the table, as the unit
\* tests do after constructing a game. The new table differs from the old in
\* one entry, so that repeated assignments reach every table.
set_table ==
    /\ \E c \in Cells, v \in TileValues :
          LET t2 == [table EXCEPT ![c[1]][c[2]] = v]
          IN  /\ WithinBounds(t2)
              /\ table' = t2
    /\ op' = "set_table"
    /\ merges' = 0
    /\ draws' = 0
    /\ streak' = 0
    /\ UNCHANGED <<pc, n, winning_number, status>>

NextFn ==
    \/ Next
    \/ set_table

\* The engine's operations applied to every table and every status.
SpecFn == Init /\ [][NextFn]_vars

\* ------------------------------------------------ the methods step by step
\* The loops of the methods with one evaluation of a loop guard, and of the
\* loop body if the guard holds, per step. op is the method in progress.

\* j = 0 (shift_left, shift_up) or j = self.n - 1 (shift_right, shift_down)
FirstPos(d) == IF d \in {"shift_left", "shift_up"} THEN 0 ELSE n - 1

\* while j < self.n - num_eliminated_elements - 1 (shift_left, shift_up) or
\* while j > num_eliminated_elements (shift_right, shift_down)
LoopGuard(d, j, e) ==
    IF d \in {"shift_left", "shift_up"} THEN j < n - e - 1 ELSE j > e

\* j += 1 or j -= 1
NextPos(d, j) == IF d \in {"shift_left", "shift_up"} THEN j + 1 ELSE j - 1

\* self.table[i, j] in the row shifts, self.table[j, i] in the column shifts
Entry(d, t, i, j) ==
    IF d \in {"shift_left", "shift_right"} THEN t[i][j] ELSE t[j][i]

\* The slice assignment that eliminates entry j of line i.
Eliminate(d, t, i, j) ==
    CASE d = "shift_left" -> EliminateLeft(t, i, j)
      [] d = "shift_right" -> EliminateRight(t, i, j)
      [] d = "shift_up" -> EliminateUp(t, i, j)
      [] d = "shift_down" -> EliminateDown(t, i, j)

\* self.table[i, j + 1] = 2*self.table[i, j + 1], and its three variants
Doubled(d, t, i, j) ==
    IF d \in {"shift_left", "shift_right"}
    THEN [t EXCEPT ![i][NextPos(d, j)] = 2 * t[i][NextPos(d, j)]]
    ELSE [t EXCEPT ![NextPos(d, j)][i] = 2 * t[NextPos(d, j)][i]]

\* CompactBody without the count of the eliminated elements.
CompactBodyNoCount(d, t, i, j, e) ==
    IF Entry(d, t, i, j) = 0
    THEN [table |-> Eliminate(d, t, i, j), j |-> j, e |-> e]
    ELSE [table |-> t, j |-> NextPos(d, j), e |-> e]

\* The body of the compaction loop of shift d on line i.
CompactBody(d, t, i, j, e) ==
    IF Entry(d, t, i, j) = 0
    THEN [table |-> Eliminate(d, t, i, j), j |-> j, e |-> e + 1]
    ELSE [table |-> t, j |-> NextPos(d, j), e |-> e]

\* The body of the merge loop of shift d on line i.
MergeBody(d, t, i, j, e) ==
    IF Entry(d, t, i, j) = Entry(d, t, i, NextPos(d, j))
    THEN [table |-> Eliminate(d, Doubled(d, t, i, j), i, j),
          j |-> j, e |-> e + 1]
    ELSE [table |-> t, j |-> NextPos(d, j), e |-> e]

\* A shift is called: for i in range(self.n) starts at i = 0 (n >= 1).
call_shift ==
    /\ pc = Idle
    /\ \E d \in Shifts : op' = d /\ pc' = [Idle EXCEPT !.at = "compact", !.j = FirstPos(d)]
    /\ UNCHANGED <<n, winning_number, table, status, merges, draws, streak>>

\* The compaction loop; when its guard fails, j is reset for the merge loop.
compact_step ==
    /\ pc.at = "compact"
    /\ IF LoopGuard(op, pc.j, pc.e)
       THEN LET b == CompactBody(op, table, pc.i, pc.j, pc.e)
            IN  /\ table' = b.table
                /\ pc' = [pc EXCEPT !.j = b.j, !.e = b.e]
       ELSE /\ table' = table
            /\ pc' = [pc EXCEPT !.at = "merge", !.j = FirstPos(op)]
    /\ UNCHANGED <<n, winning_number, status, op, merges, draws, streak>>

\* The merge loop; when its guard fails, the for loop goes to the next line
\* or the method returns.
merge_step ==
    /\ pc.at = "merge"
    /\ IF LoopGuard(op, pc.j, pc.e)
       THEN LET b == MergeBody(op, table, pc.i, pc.j, pc.e)
            IN  /\ table' = b.table
                /\ pc' = [pc EXCEPT !.j = b.j, !.e = b.e]
       ELSE /\ table' = table
            /\ pc' = IF pc.i + 1 < n
                     THEN [Idle EXCEPT !.at = "compact", !.i = pc.i + 1,
                                       !.j = FirstPos(op)]
                     ELSE Idle
    /\ UNCHANGED <<n, winning_number, status, op, merges, draws, streak>>

\* update_status is called: the two np.any tests, then the double loop.
call_update_status ==
    /\ pc = Idle
    /\ op' = "update_status"
    /\ IF AnyWon(table) THEN status' = "WON" /\ pc' = Idle
       ELSE IF AnyZero(table) THEN status' = status /\ pc' = Idle
       ELSE status' = status /\ pc' = [Idle EXCEPT !.at = "probe_below"]
    /\ UNCHANGED <<n, winning_number, table, merges, draws, streak>>

\* ProbeStep without the try block: the IndexError is raised to the caller.
ProbeStepNoTry(t, i, j, a, b) ==
    IF a > n - 1 \/ b > n - 1 THEN "raise"
    ELSE IF t[i][j] = t[a][b] THEN "return" ELSE "pass"

\* try: if self.table[i,j] == self.table[a,b]: return / except: pass.
\* The outcome of one probe: "return", "pass" (also after an IndexError,
\* which the except swallows) or "raise".
ProbeStep(t, i, j, a, b) ==
    IF a > n - 1 \/ b > n - 1 THEN "pass"
    ELSE IF t[i][j] = t[a][b] THEN "return" ELSE "pass"

\* The probe of the entry below (i, j).
probe_below ==
    /\ pc.at = "probe_below"
    /\ LET o == ProbeStep(table, pc.i, pc.j, pc.i + 1, pc.j)
       IN  pc' = CASE o = "return" -> Idle
                   [] o = "raise" -> [pc EXCEPT !.at = "raised"]
                   [] OTHER -> [pc EXCEPT !.at = "probe_right"]
    /\ UNCHANGED <<n, winning_number, table, status, op, merges, draws, streak>>

\* The probe of the entry to the right of (i, j), then the next (i, j); after
\* the last one self.status = Status.LOST.
probe_right ==
    /\ pc.at = "probe_right"
    /\ LET o == ProbeStep(table, pc.i, pc.j, pc.i, pc.j + 1)
       IN  CASE o = "return" -> pc' = Idle /\ status' = status
             [] o = "raise" ->
                    pc' = [pc EXCEPT !.at = "raised"] /\ status' = status
             [] OTHER ->
                    IF pc.j + 1 < n
                    THEN /\ pc' = [pc EXCEPT !.at = "probe_below",
                                             !.j = pc.j + 1]
                         /\ status' = status
                    ELSE IF pc.i + 1 < n
                    THEN /\ pc' = [pc EXCEPT !.at = "probe_below",
                                             !.i = pc.i + 1, !.j = 0]
                         /\ status' = status
                    ELSE /\ pc' = Idle
                         /\ status' = "LOST"
    /\ UNCHANGED <<n, winning_number, table, op, merges, draws, streak>>

\* insert_random_2 is called: the np.any test and the first draw of (i, j).
\* It is called where the table with one more 2 is within the bounds.
call_insert_random_2 ==
    /\ pc = Idle
    /\ 2 * n + (Sum(table) + 2) \div 2 <= MaxGame
    /\ op' = "insert_random_2"
    /\ IF AnyZero(table)
       THEN \E c \in Cells :
               pc' = [Idle EXCEPT !.at = "while", !.i = c[1], !.j = c[2]]
       ELSE pc' = Idle
    /\ UNCHANGED <<n, winning_number, table, status, merges, draws, streak>>

\* The body of the while loop: a new draw, of a coordinate that is rejected
\* again ...
draw_rejected ==
    /\ pc.at = "while"
    /\ Rejected(table, <<pc.i, pc.j>>)
    /\ \E c \in Cells :
          /\ Rejected(table, c)
          /\ pc' = [pc EXCEPT !.i = c[1], !.j = c[2]]
    /\ UNCHANGED <<n, winning_number, table, status, op, merges, draws, streak>>

\* ... or of the coordinate of a null entry.
draw_null ==
    /\ pc.at = "while"
    /\ Rejected(table, <<pc.i, pc.j>>)
    /\ \E c \in Cells :
          /\ ~Rejected(table, c)
          /\ pc' = [pc EXCEPT !.i = c[1], !.j = c[2]]
    /\ UNCHANGED <<n, winning_number, table, status, op, merges, draws, streak>>

\* The while guard fails: self.table[i, j] = 2.
while_exit ==
    /\ pc.at = "while"
    /\ ~Rejected(table, <<pc.i, pc.j>>)
    /\ table' = [table EXCEPT ![pc.i][pc.j] = 2]
    /\ pc' = Idle
    /\ UNCHANGED <<n, winning_number, status, op, merges, draws, streak>>

\* A table is assigned between two calls.
set_table_between_calls ==
    /\ pc = Idle
    /\ set_table

\* The steps of a method in progress.
StepLoop ==
    \/ compact_step
    \/ merge_step
    \/ probe_below
    \/ probe_right
    \/ draw_rejected
    \/ draw_null
    \/ while_exit

NextLoop ==
    \/ call_shift
    \/ call_update_status
    \/ call_insert_random_2
    \/ set_table_between_calls
    \/ StepLoop

\* A method in progress keeps running, and the random draws are fair: a
\* loop that keeps drawing eventually draws the coordinate of a null entry.
SpecLoop ==
    /\ Init
    /\ [][NextLoop]_vars
    /\ WF_vars(StepLoop)
    /\ WF_vars(draw_null)

\* ======================================================================
\* Properties of the shifts
\* ======================================================================

\* Line i of table t for a shift, read from the target end outward.
LineOf(t, dir, i) ==
    CASE dir = "shift_left" -> [k \in 1 .. n |-> t[i][k - 1]]
      [] dir = "shift_right" -> [k \in 1 .. n |-> t[i][n - k]]
      [] dir = "shift_up" -> [k \in 1 .. n |-> t[k - 1][i]]
      [] dir = "shift_down" -> [k \in 1 .. n |-> t[n - k][i]]

IsNonZero(x) == x # 0

\* One pass from the target end: each pair of equal neighbours becomes its
\* sum, and the pass resumes after the pair, so a sum is not merged again.
RECURSIVE SinglePass(_)
SinglePass(s) ==
    IF Len(s) < 2 THEN s
    ELSE IF s[1] = s[2]
         THEN <<2 * s[1]>> \o SinglePass(SubSeq(s, 3, Len(s)))
         ELSE <<s[1]>> \o SinglePass(Tail(s))

PadZeros(s) == [k \in 1 .. n |-> IF k <= Len(s) THEN s[k] ELSE 0]

CompactThenSinglePass(s) == PadZeros(SinglePass(SelectSeq(s, IsNonZero)))

\* C1: every shift turns every line into: compact the non-zero values
\* toward the target end keeping their order, then one pass from the target
\* end that replaces each pair of equal neighbours by their sum, a sum never
\* being merged again in the same call (2,2,4,0 becomes 4,4,0,0).
C1_CompactThenSinglePass ==
    [][op' \in Shifts =>
         \A i \in Idx :
             LineOf(table', op', i) = CompactThenSinglePass(LineOf(table, op', i))]_vars

\* Two equal non-zero neighbours along the axis of the shift dir.
HasEqualPairAlong(t, dir) ==
    IF dir \in {"shift_left", "shift_right"}
    THEN \E i \in Idx, j \in 0 .. n - 2 : t[i][j] # 0 /\ t[i][j] = t[i][j + 1]
    ELSE \E i \in Idx, j \in 0 .. n - 2 : t[j][i] # 0 /\ t[j][i] = t[j + 1][i]

\* C2 (as stated): a shift applied to the result of the same shift, with no
\* insertion in between, leaves the table unchanged.
C2_SecondShiftChangesNothing ==
    [][(op \in Shifts /\ op' = op) => table' = table]_vars

\* C2 (amended): a shift applied to the result of the same shift leaves the
\* table unchanged whenever that result has no two equal non-zero
\* neighbours along the axis of the shift.
C2_SecondShiftChangesNothingWithoutPair ==
    [][(op \in Shifts /\ op' = op /\ ~HasEqualPairAlong(table, op))
          => table' = table]_vars

\* The same shift was applied twice in a row to a table with several tiles
\* and no equal neighbours along its axis.
C2_Witness ==
    /\ op \in Shifts
    /\ streak = 2
    /\ NonZero(table) >= 3
    /\ ~HasEqualPairAlong(table, op)

\* C3: the sum of all table values after a shift equals the sum before.
C3_SumPreserved ==
    [][op' \in Shifts => Sum(table') = Sum(table)]_vars

\* A shift that merged, on a table that still holds other tiles.
C3_Witness ==
    /\ op \in Shifts
    /\ merges >= 1
    /\ NonZero(table) >= 2

\* C4: the number of non-zero cells after a shift is at most the number
\* before, and it drops by exactly one for each merge performed.
C4_CountDropsByMerges ==
    [][op' \in Shifts =>
         /\ NonZero(table') <= NonZero(table)
         /\ NonZero(table) - NonZero(table') = merges']_vars

\* A shift that performed two merges.
C4_Witness ==
    /\ op \in Shifts
    /\ merges >= 2

\* ======================================================================
\* Properties of update_status
\* ======================================================================

\* Some cell holds at least the winning number.
SomeCellWins == \E i \in Idx, j \in Idx : table[i][j] >= winning_number

\* No cell is empty.
TableFull == \A i \in Idx, j \in Idx : table[i][j] # 0

\* Two row- or column-adjacent cells hold equal values.
SomeEqualNeighbours ==
    \/ \E i \in Idx, j \in Idx : j + 1 \in Idx /\ table[i][j] = table[i][j + 1]
    \/ \E i \in Idx, j \in Idx : i + 1 \in Idx /\ table[i][j] = table[i + 1][j]

\* C5: update_status sets status to WON whenever some cell is >=
\* winning_number, also when the table is full and has no two equal adjacent
\* cells.
C5_WinHasPriority ==
    (op = "update_status" /\ SomeCellWins) => status = "WON"

\* update_status has run on a full table of size >= 2 without equal
\* neighbours that holds a winning cell.
C5_Witness ==
    /\ op = "update_status"
    /\ n >= 2
    /\ SomeCellWins
    /\ TableFull
    /\ ~SomeEqualNeighbours
    /\ status = "WON"

\* C6: in every state reachable from construction by shifts, insertions and
\* update_status calls, right after update_status: status is WON iff some
\* cell is >= winning_number; LOST iff no cell is >= winning_number, no cell
\* is 0 and no two adjacent cells are equal; IN_PROGRESS otherwise.
C6_StatusAfterUpdate ==
    op = "update_status" =>
        LET lost == ~SomeCellWins /\ TableFull /\ ~SomeEqualNeighbours
        IN  /\ status = "WON" <=> SomeCellWins
            /\ status = "LOST" <=> lost
            /\ status = "IN_PROGRESS" <=> (~SomeCellWins /\ ~lost)

\* update_status has found a game on a table of size >= 2 lost.
C6_Witness ==
    /\ op = "update_status"
    /\ n >= 2
    /\ status = "LOST"

\* C7: update_status recomputes status from the table alone: with no cell
\* >= winning_number and an empty cell, or a full table with an equal
\* adjacent pair, status is IN_PROGRESS after the call whatever it was
\* before.
C7_RecomputedFromTable ==
    (/\ op = "update_status"
     /\ ~SomeCellWins
     /\ (~TableFull \/ SomeEqualNeighbours))
        => status = "IN_PROGRESS"

\* ======================================================================
\* Properties of insert_random_2 and of construction
\* ======================================================================

\* C8: insert_random_2 changes nothing on a table with no zero cell; on a
\* table with a zero cell it changes exactly one cell, from 0 to 2, and
\* every zero cell is a possible target.
C8_InsertFrame ==
    /\ [][op' = "insert_random_2" =>
             IF TableFull
             THEN table' = table
             ELSE \E i \in Idx, j \in Idx :
                     /\ table[i][j] = 0
                     /\ table' = [table EXCEPT ![i][j] = 2]]_vars
    /\ [](\A i \in Idx, j \in Idx :
             (table[i][j] = 0 /\ WithinBounds([table EXCEPT ![i][j] = 2]))
                => ENABLED (/\ insert_random_2
                            /\ table' = [table EXCEPT ![i][j] = 2]))

\* insert_random_2 has written a 2 into a table that holds other tiles and
\* still has an empty cell.
C8_Witness ==
    /\ op = "insert_random_2"
    /\ draws >= 1
    /\ NonZero(table) >= 3
    /\ ~TableFull

\* C9 (as stated): insert_random_2 never draws an occupied coordinate and
\* retries: one call makes at most one draw.
C9_NoRetry ==
    op = "insert_random_2" => draws <= 1

\* C9 (amended): insert_random_2 picks its cell by rejection: it draws among
\* all n * n coordinates and draws again while the drawn cell is occupied.
\* It makes no draw on a full table, a second draw only when some cell is
\* occupied, and on a table with an empty and an occupied cell every number
\* of draws from 1 up to the explored maximum is possible.
C9_RejectionLoop ==
    /\ op = "insert_random_2" =>
          /\ draws = 0 => TableFull
          /\ draws >= 2 => NonZero(table) >= 2
    /\ \A i \in Idx, j \in Idx :
          (/\ table[i][j] = 0
           /\ ~(\A a \in Idx, b \in Idx : table[a][b] = 0)
           /\ WithinBounds([table EXCEPT ![i][j] = 2]))
              => \A k \in 1 .. MaxDraws :
                    ENABLED (/\ insert_random_2
                             /\ draws' = k
                             /\ table' = [table EXCEPT ![i][j] = 2])

\* insert_random_2 has drawn an occupied coordinate and retried.
C9_Witness ==
    /\ op = "insert_random_2"
    /\ draws >= 2

\* C10: right after construction the table has exactly one cell equal to 2
\* and every other cell equal to 0, and status is IN_PROGRESS, for every n
\* and winning_number.
C10_AfterConstruction ==
    op = "init" =>
        /\ Cardinality({c \in Cells : table[c[1]][c[2]] = 2}) = 1
        /\ \A c \in Cells : table[c[1]][c[2]] \in {0, 2}
        /\ status = "IN_PROGRESS"

\* A game of the largest size has been constructed whose first tile already
\* reaches the winning number.
C10_Witness ==
    /\ op = "init"
    /\ n = MaxN
    /\ SomeCellWins

\* ======================================================================
\* Frame of the grid operations
\* ======================================================================

\* C11: the four shifts and insert_random_2 mutate the table only: each
\* leaves status, n and winning_number unchanged.
C11_GridOperationsKeepStatus ==
    [][op' \in Shifts \cup {"insert_random_2"} =>
         /\ status' = status
         /\ n' = n
         /\ winning_number' = winning_number]_vars

\* A shift has merged a winning tile and status is still IN_PROGRESS.
C11_Witness ==
    /\ op \in Shifts
    /\ merges >= 1
    /\ SomeCellWins
    /\ status = "IN_PROGRESS"

\* The table a shift method makes of table t.
ShiftResult(dir, t) ==
    CASE dir = "shift_left" -> ShiftLeftFrom(t, 0, 0).table
      [] dir = "shift_right" -> ShiftRightFrom(t, 0, 0).table
      [] dir = "shift_up" -> ShiftUpFrom(t, 0, 0).table
      [] dir = "shift_down" -> ShiftDownFrom(t, 0, 0).table

\* ======================================================================
\* Legal moves and tile values
\* ======================================================================

\* C13: the player loses exactly when no legal move exists: in every state
\* reachable from construction with no cell >= winning_number, status after
\* update_status is LOST iff none of the four shifts would change the table.
C13_LostIffNoLegalMove ==
    (op = "update_status" /\ ~SomeCellWins) =>
        (status = "LOST" <=> \A dir \in Shifts : ShiftResult(dir, table) = table)

\* update_status has found a 2 x 2 game lost, and no shift changes its table.
C13_Witness ==
    /\ op = "update_status"
    /\ n = 2
    /\ ~SomeCellWins
    /\ status = "LOST"
    /\ \A dir \in Shifts : ShiftResult(dir, table) = table

RECURSIVE IsPowerOfTwo(_)
IsPowerOfTwo(x) ==
    \/ x = 2
    \/ x > 2 /\ x % 2 = 0 /\ IsPowerOfTwo(x \div 2)

\* C14: in every state reachable from construction by shifts and
\* insertions, every cell is either 0 or a power of two that is >= 2.
C14_TilesArePowersOfTwo ==
    \A i \in Idx, j \in Idx : table[i][j] = 0 \/ IsPowerOfTwo(table[i][j])

\* A shift has merged two tiles into an 8.
C14_Witness ==
    /\ op \in Shifts
    /\ merges >= 1
    /\ \E i \in Idx, j \in Idx : table[i][j] = 8

\* ======================================================================
\* The four shifts as one algorithm
\* ======================================================================

\* Every row reversed.
Mirror(t) == [i \in Idx |-> [j \in Idx |-> t[i][n - 1 - j]]]

Transpose(t) == [i \in Idx |-> [j \in Idx |-> t[j][i]]]

\* C15: shift_right is shift_left on the table with every row reversed (and
\* reversed back), shift_up is shift_left on the transposed table (and
\* transposed back), shift_down is shift_right on the transposed table (and
\* transposed back).
C15_ShiftsAreOneAlgorithm ==
    [][/\ op' = "shift_right" =>
             table' = Mirror(ShiftLeftFrom(Mirror(table), 0, 0).table)
       /\ op' = "shift_up" =>
             table' = Transpose(ShiftLeftFrom(Transpose(table), 0, 0).table)
       /\ op' = "shift_down" =>
             table' = Transpose(ShiftRightFrom(Transpose(table), 0, 0).table)
      ]_vars

\* shift_right, shift_up or shift_down has merged on a table that is neither
\* symmetric nor a mirror image of itself.
C15_Witness ==
    /\ op \in Shifts \ {"shift_left"}
    /\ merges >= 1
    /\ table # Transpose(table)
    /\ table # Mirror(table)
    /\ NonZero(table) >= 3

\* Table t with every line but line i of the shift dir emptied.
OnlyLine(t, dir, i) ==
    IF dir \in {"shift_left", "shift_right"}
    THEN [r \in Idx |-> [c \in Idx |-> IF r = i THEN t[r][c] ELSE 0]]
    ELSE [r \in Idx |-> [c \in Idx |-> IF c = i THEN t[r][c] ELSE 0]]

\* No zero lies between the target end and a non-zero value of line s.
GapFree(s) == \A k \in 1 .. Len(s) - 1 : s[k] = 0 => s[k + 1] = 0

\* C16: after any shift every line is gap-free toward the target end, and
\* each line's result depends only on that line's content before the shift.
C16_GapFreeLineByLine ==
    [][op' \in Shifts =>
         \A i \in Idx :
             /\ GapFree(LineOf(table', op', i))
             /\ LineOf(table', op', i)
                  = LineOf(ShiftResult(op', OnlyLine(table, op', i)), op', i)]_vars

\* A shift has left a line with two tiles and an empty far end, next to
\* another line that is not empty.
C16_Witness ==
    /\ op \in Shifts
    /\ \E i \in Idx, k \in Idx :
          /\ i # k
          /\ LineOf(table, op, i)[2] # 0
          /\ LineOf(table, op, i)[n] = 0
          /\ LineOf(table, op, k)[1] # 0

\* ======================================================================
\* Terminal states
\* ======================================================================

RECURSIVE MaxFrom(_, _)
MaxFrom(t, k) ==
    IF k >= n * n THEN 0
    ELSE LET m == MaxFrom(t, k + 1)
             x == t[k \div n][k % n]
         IN  IF x > m THEN x ELSE m

\* The largest value of table t.
MaxTile(t) == MaxFrom(t, 0)

\* C19: once update_status has set LOST, every later shift and insertion
\* leaves the table unchanged and every later update_status leaves status
\* LOST; once it has set WON, every later update_status leaves status WON;
\* no shift or insertion lowers the largest value of the table.
C19_TerminalStatesAbsorbing ==
    [][/\ status = "LOST" => (table' = table /\ status' = "LOST")
       /\ status = "WON" => status' = "WON"
       /\ MaxTile(table') >= MaxTile(table)]_vars

\* A shift or an insertion has been applied to a lost 2 x 2 game.
C19_Witness ==
    /\ status = "LOST"
    /\ n = 2
    /\ op \in Shifts \cup {"insert_random_2"}

\* ======================================================================
\* The driver
\* ======================================================================

\* The table that the shift of command c makes of table t (t itself for an
\* unrecognized command).
AfterCommand(c, t) ==
    CASE c = "w" -> ShiftResult("shift_up", t)
      [] c = "d" -> ShiftResult("shift_right", t)
      [] c = "s" -> ShiftResult("shift_down", t)
      [] c = "a" -> ShiftResult("shift_left", t)
      [] OTHER -> t

\* A legal move: a shift that shifts or changes at least one number.
LegalMove(c, t) == AfterCommand(c, t) # t

\* C12: in the driver loop illegal moves and meaningless strings are
\* ignored: an unrecognized command, or a shift that moves and merges
\* nothing, leaves the table unchanged and inserts no tile.
C12_IllegalMovesIgnored ==
    [][(op' \in Commands /\ ~LegalMove(op', table)) =>
          (table' = table /\ draws' = 0)]_vars

\* Table t is won or lost.
WonOrLost(t) ==
    \/ \E i \in Idx, j \in Idx : t[i][j] >= winning_number
    \/ /\ \A i \in Idx, j \in Idx : t[i][j] # 0
       /\ \A i \in Idx, j \in Idx :
             /\ j + 1 \in Idx => t[i][j] # t[i][j + 1]
             /\ i + 1 \in Idx => t[i][j] # t[i + 1][j]

\* Table u is table t with a 2 written into one empty cell, or t itself if
\* t has no empty cell.
OneTileInserted(t, u) ==
    LET D == {c \in Cells : u[c[1]][c[2]] # t[c[1]][c[2]]}
    IN  IF \A c \in Cells : t[c[1]][c[2]] # 0
        THEN D = {}
        ELSE \E c \in D :
                D = {c} /\ t[c[1]][c[2]] = 0 /\ u[c[1]][c[2]] = 2

C17_EveryCallReturns ==
    /\ [](pc.at # "raised")
    /\ (pc.at # "idle") ~> (pc.at = "idle")

\* The compaction loop of a shift has eliminated every entry but one of an
\* all-zero line of a table of size 3.
C17_Witness ==
    /\ n = 3
    /\ op \in Shifts
    /\ pc.at = "compact"
    /\ pc.e = 2
    /\ \A k \in Idx : Entry(op, table, pc.i, k) = 0

====
